---- MODULE Spec2Model ----
(***************************************************************************)
(* Sprint report generation: the Jira client (jira_client.py) and the      *)
(* report generator (generate_api_report.py).                              *)
(*                                                                         *)
(* Text the code inspects character by character (summary, epic name,      *)
(* status, ...) is a sequence of one-character strings.  Values the code   *)
(* only compares (issue keys, issue type names) are plain strings.         *)
(***************************************************************************)
EXTENDS Integers, Sequences, FiniteSets, TLC

VARIABLES
    pc,             \* position of generate_markdown_report in its pipeline
    server,         \* the issues matching the filter query, in server order
    pageLimit,      \* the most issues the server puts in one page
    reportsTotal,   \* whether the server's pages carry a "total" member
    query,          \* the search in progress: "main", "epic" or "none"
    matching,       \* the issues matching the search in progress
    max_results,    \* max_results of the search in progress
    start_at,       \* search_issues: start_at
    all_issues,     \* search_issues: all_issues
    requests,       \* the page requests sent by the search in progress
    pages,          \* the pages received by the search in progress
    failed,         \* the searches in which a request has failed
    raw_issues,     \* fetch_sprint_data: raw_issues
    epic_raws,      \* fetch_sprint_data: epic_raws
    grouped_data,   \* fetch_sprint_data: its return value
    report,         \* generate_markdown_report: epic_entries_sorted
    fn_pc,          \* unit specifications: "call" before, "ret" after
    fn_in,          \* unit specifications: the argument
    fn_out          \* unit specifications: the returned value

vars == <<pc, server, pageLimit, reportsTotal, query, matching, max_results,
          start_at, all_issues, requests, pages, failed, raw_issues, epic_raws,
          grouped_data, report, fn_pc, fn_in, fn_out>>

pipeVars == <<pc, server, pageLimit, reportsTotal, query, matching,
              max_results, start_at, all_issues, requests, pages, failed,
              raw_issues, epic_raws, grouped_data, report>>

fnVars == <<fn_pc, fn_in, fn_out>>

(***************************************************************************)
(* Python values.                                                          *)
(***************************************************************************)

\* Python None where the code expects text.  No text equals it: text is made
\* of one-character strings.
None == <<"None">>

\* Python None where the code expects a key or a type name.
NoneAtom == "None"

\* bool(s) of a text value or None
Truthy(s) == s # <<>> /\ s # None

\* bool(a) of a key, a type name or None
TruthyAtom(a) == a # "" /\ a # NoneAtom

\* a or b
PyOr(a, b) == IF Truthy(a) THEN a ELSE b

UpperCase ==
    <<"A", "B", "C", "D", "E", "F", "G", "H", "I", "J", "K", "L", "M",
      "N", "O", "P", "Q", "R", "S", "T", "U", "V", "W", "X", "Y", "Z">>

LowerCase ==
    <<"a", "b", "c", "d", "e", "f", "g", "h", "i", "j", "k", "l", "m",
      "n", "o", "p", "q", "r", "s", "t", "u", "v", "w", "x", "y", "z">>

LowerChar(c) ==
    IF \E i \in DOMAIN UpperCase : UpperCase[i] = c
    THEN LowerCase[CHOOSE i \in DOMAIN UpperCase : UpperCase[i] = c]
    ELSE c

UpperChar(c) ==
    IF \E i \in DOMAIN LowerCase : LowerCase[i] = c
    THEN UpperCase[CHOOSE i \in DOMAIN LowerCase : LowerCase[i] = c]
    ELSE c

\* str.lower()
Lower(s) == [i \in 1..Len(s) |-> LowerChar(s[i])]

(***************************************************************************)
(* JSON values of the server's responses.                                  *)
(***************************************************************************)

JNull == [t |-> "null", v |-> <<>>]
JErr == [t |-> "err", v |-> <<>>]     \* an expression that raised
JStr(s) == [t |-> "str", v |-> s]     \* a string the code reads as text
JAtom(a) == [t |-> "atom", v |-> a]   \* a string the code only compares
JObj(o) == [t |-> "obj", v |-> o]
JList(l) == [t |-> "list", v |-> l]
EmptyObj == JObj(<<>>)

\* bool(v)
JTruthy(v) ==
    CASE v.t = "str" -> v.v # <<>>
      [] v.t = "atom" -> v.v # ""
      [] v.t = "obj" -> DOMAIN v.v # {}
      [] v.t = "list" -> Len(v.v) > 0
      [] OTHER -> FALSE

\* o.get(k, d): AttributeError unless o is a dict
Get(o, k, d) ==
    IF o.t # "obj" THEN JErr
    ELSE IF k \in DOMAIN o.v THEN o.v[k] ELSE d

\* the Python value of a JSON leaf read as text
Text(v) == IF v.t = "str" THEN v.v ELSE None

\* the Python value of a JSON leaf read as a key or a type name
Atom(v) == IF v.t = "atom" THEN v.v ELSE NoneAtom

(***************************************************************************)
(* JiraClient.parse_issue                                                  *)
(***************************************************************************)

\* a variant that prefers the custom field to the parent
EpicLinkCustomFirst(parent_link, custom) ==
    IF JTruthy(custom) THEN custom ELSE parent_link

\* if not epic_link: epic_link = fields.get("customfield_10014", "")
EpicLinkFallback(parent_link, custom) ==
    IF ~JTruthy(parent_link) THEN custom ELSE parent_link

parse_issue(issue) ==
    LET fields == Get(issue, "fields", EmptyObj)
        parent == Get(fields, "parent", EmptyObj)
        parent_type ==
            Get(Get(Get(parent, "fields", EmptyObj), "issuetype", EmptyObj),
                "name", JNull)
        parent_is_epic == JTruthy(parent) /\ parent_type = JAtom("Epic")
        parent_link ==
            IF parent_is_epic THEN Get(parent, "key", JAtom("")) ELSE JAtom("")
        epic_link ==
            EpicLinkFallback(parent_link,
                             Get(fields, "customfield_10014", JAtom("")))
        epic_name == Get(fields, "customfield_10011", JStr(<<>>))
        sprint_field == Get(fields, "customfield_10020", JList(<<>>))
        sprint_name ==
            IF JTruthy(sprint_field) /\ sprint_field.t = "list"
            THEN Get(sprint_field.v[1], "name", JStr(<<>>))
            ELSE JStr(<<>>)
        status == Get(fields, "status", EmptyObj)
        assignee == Get(fields, "assignee", EmptyObj)
        values == [
            key |-> Get(issue, "key", JAtom("")),
            summary |-> Get(fields, "summary", JStr(<<>>)),
            description |-> Get(fields, "description", JStr(<<>>)),
            status |-> Get(status, "name", JStr(<<>>)),
            status_category |->
                Get(Get(status, "statusCategory", EmptyObj), "name", JStr(<<>>)),
            issuetype |->
                Get(Get(fields, "issuetype", EmptyObj), "name", JAtom("")),
            epic_link |-> epic_link,
            epic_name |-> epic_name,
            parent_key |->
                IF JTruthy(parent) THEN Get(parent, "key", JAtom(""))
                ELSE JAtom(""),
            parent_summary |->
                IF JTruthy(parent)
                THEN Get(Get(parent, "fields", EmptyObj), "summary", JStr(<<>>))
                ELSE JStr(<<>>),
            assignee |->
                IF JTruthy(Get(fields, "assignee", EmptyObj))
                THEN Get(assignee, "displayName", JStr(<<>>))
                ELSE JStr(<<>>),
            created |-> Get(fields, "created", JStr(<<>>)),
            updated |-> Get(fields, "updated", JStr(<<>>)),
            sprint |-> sprint_name ]
        raised ==
            \/ fields.t = "err"
            \/ parent.t = "err"
            \/ JTruthy(parent) /\ parent_type.t = "err"
            \/ \E f \in DOMAIN values : values[f].t = "err"
    IN  [ raised |-> raised,
          issue |-> [
            key |-> Atom(values.key),
            summary |-> Text(values.summary),
            description |-> Text(values.description),
            status |-> Text(values.status),
            status_category |-> Text(values.status_category),
            issuetype |-> Atom(values.issuetype),
            epic_link |-> Atom(values.epic_link),
            epic_name |-> Text(values.epic_name),
            parent_key |-> Atom(values.parent_key),
            parent_summary |-> Text(values.parent_summary),
            assignee |-> Text(values.assignee),
            created |-> Text(values.created),
            updated |-> Text(values.updated),
            sprint |-> Text(values.sprint) ] ]

(***************************************************************************)
(* Python dicts keep insertion order: the epics dict is a sequence of      *)
(* EpicGroup records with pairwise distinct epic_key.                      *)
(***************************************************************************)

DictKeys(d) == {d[i].epic_key : i \in DOMAIN d}

DictHas(d, k) == \E i \in DOMAIN d : d[i].epic_key = k

DictGet(d, k) == d[CHOOSE i \in DOMAIN d : d[i].epic_key = k]

\* d[k] = g: a new key goes last, an old key keeps its place
DictSet(d, k, g) ==
    IF DictHas(d, k)
    THEN [i \in DOMAIN d |-> IF d[i].epic_key = k THEN g ELSE d[i]]
    ELSE Append(d, g)

(***************************************************************************)
(* JiraClient.group_issues_by_parent                                       *)
(***************************************************************************)

\* a variant that puts the issue first: children.insert(0, issue)
PrependChild(children, issue) == <<issue>> \o children

\* epics[epic_key]["children"].append(issue)
AppendChild(children, issue) == Append(children, issue)

RECURSIVE GroupFrom(_, _, _, _)
GroupFrom(issues, i, epics, standalone) ==
    IF i > Len(issues)
    THEN [epics |-> epics, standalone |-> standalone]
    ELSE
        LET issue == issues[i]
            epic_key == issue.epic_link
        IN  IF issue.issuetype = "Epic"
            THEN GroupFrom(issues, i + 1,
                    DictSet(epics, issue.key,
                        [ epic_key |-> issue.key,
                          epic_name |-> PyOr(issue.epic_name, issue.summary),
                          children |-> <<>> ]),
                    standalone)
            ELSE IF TruthyAtom(epic_key)
            THEN
                LET known ==
                        IF ~DictHas(epics, epic_key)
                        THEN DictSet(epics, epic_key,
                                [ epic_key |-> epic_key,
                                  epic_name |-> <<>>,
                                  children |-> <<>> ])
                        ELSE epics
                    group == DictGet(known, epic_key)
                IN  GroupFrom(issues, i + 1,
                        DictSet(known, epic_key,
                            [group EXCEPT
                                !.children = AppendChild(@, issue)]),
                        standalone)
            ELSE GroupFrom(issues, i + 1, epics, Append(standalone, issue))

group_issues_by_parent(issues) == GroupFrom(issues, 1, <<>>, <<>>)

(***************************************************************************)
(* Text operations of Python and of its re module.                         *)
(***************************************************************************)

\* the characters of ASCII 32..95, in code point order
AsciiLow ==
    <<" ", "!", "\"", "#", "$", "%", "&", "'", "(", ")", "*", "+", ",",
      "-", ".", "/", "0", "1", "2", "3", "4", "5", "6", "7", "8", "9", ":",
      ";", "<", "=", ">", "?", "@", "A", "B", "C", "D", "E", "F", "G", "H",
      "I", "J", "K", "L", "M", "N", "O", "P", "Q", "R", "S", "T", "U", "V",
      "W", "X", "Y", "Z", "[", "\\", "]", "^", "_">>

\* the characters of ASCII 97..126, in code point order
AsciiHigh ==
    <<"a", "b", "c", "d", "e", "f", "g", "h", "i", "j", "k", "l", "m", "n",
      "o", "p", "q", "r", "s", "t", "u", "v", "w", "x", "y", "z", "{", "|",
      "}", "~">>

Digits == <<"0", "1", "2", "3", "4", "5", "6", "7", "8", "9">>

\* the string literals of generate_api_report.py
txtDone == <<"d", "o", "n", "e">>

txtUnknown == <<"U", "n", "k", "n", "o", "w", "n">>

txtDoneStatus == <<"D", "o", "n", "e">>

txtInProgress == <<"I", "n", " ", "P", "r", "o", "g", "r", "e", "s", "s">>

txtInProgressLower ==
    <<"i", "n", " ", "p", "r", "o", "g", "r", "e", "s", "s">>

txtIstio == <<"i", "s", "t", "i", "o">>

txtRollout == <<"r", "o", "l", "l", "o", "u", "t">>

txtArgocd == <<"a", "r", "g", "o", "c", "d">>

txtTo == <<" ", "t", "o", " ">>

txtUpgrade == <<"u", "p", "g", "r", "a", "d", "e">>

txtCluster == <<"c", "l", "u", "s", "t", "e", "r">>

txtClusters == <<"c", "l", "u", "s", "t", "e", "r", "s">>

txtDash == <<" ", "-", " ">>

txtBr == <<"<", "b", "r", ">">>

txtCompletedIstio ==
    <<"C", "o", "m", "p", "l", "e", "t", "e", "d", " ", "I", "s", "t", "i",
      "o", " ">>

txtRolloutColon ==
    <<" ", "r", "o", "l", "l", "o", "u", "t", ":", "<", "b", "r", ">">>

txtRolloutAcross ==
    <<" ", "r", "o", "l", "l", "o", "u", "t", " ", "a", "c", "r", "o", "s",
      "s", " ">>

txtClustersDot == <<" ", "c", "l", "u", "s", "t", "e", "r", "s", ".">>

txtComponent == <<"c", "o", "m", "p", "o", "n", "e", "n", "t">>

txtMigrated == <<"M", "i", "g", "r", "a", "t", "e", "d", " ">>

txtToArgoIn ==
    <<" ", "t", "o", " ", "A", "r", "g", "o", "C", "D", " ", "i", "n", " ">>

txtToArgoAcross ==
    <<" ", "t", "o", " ", "A", "r", "g", "o", "C", "D", " ", "a", "c", "r",
      "o", "s", "s", " ">>

txtEnvironments ==
    <<" ", "e", "n", "v", "i", "r", "o", "n", "m", "e", "n", "t", "s", ".">>

txtCommaSpace == <<",", " ">>

txtCompletedArgo ==
    <<"C", "o", "m", "p", "l", "e", "t", "e", "d", " ", "A", "r", "g", "o",
      "C", "D", " ", "m", "i", "g", "r", "a", "t", "i", "o", "n", " ", "f",
      "o", "r", " ">>

txtDot == <<".">>

txtCompletedAll ==
    <<"C", "o", "m", "p", "l", "e", "t", "e", "d", " ", "a", "l", "l", " ">>

txtRelatedTasks ==
    <<" ", "r", "e", "l", "a", "t", "e", "d", " ", "t", "a", "s", "k", "s",
      ".">>

txtCompleted == <<"C", "o", "m", "p", "l", "e", "t", "e", "d", " ">>

txtOf == <<" ", "o", "f", " ">>

txtTasks == <<" ", "t", "a", "s", "k", "s", ".">>

txtTasksTracked ==
    <<" ", "t", "a", "s", "k", "s", " ", "t", "r", "a", "c", "k", "e", "d",
      ".">>

txtEpic == <<"E", "p", "i", "c", " ">>

Min(S) == CHOOSE x \in S : \A y \in S : x <= y

Max(S) == CHOOSE x \in S : \A y \in S : x >= y

\* ord(c)
CodePoint(c) ==
    IF \E i \in DOMAIN AsciiLow : AsciiLow[i] = c
    THEN 31 + (CHOOSE i \in DOMAIN AsciiLow : AsciiLow[i] = c)
    ELSE 96 + (CHOOSE i \in DOMAIN AsciiHigh : AsciiHigh[i] = c)

IsDigit(c) == \E i \in DOMAIN Digits : Digits[i] = c

IsSpace(c) == c \in {" ", "\t", "\n", "\r"}

IsLetter(c) ==
    \/ \E i \in DOMAIN UpperCase : UpperCase[i] = c
    \/ \E i \in DOMAIN LowerCase : LowerCase[i] = c

\* sub in s
Contains(s, sub) ==
    \E i \in 1..(Len(s) - Len(sub) + 1) : SubSeq(s, i, i + Len(sub) - 1) = sub

\* s.startswith(p)
StartsWith(s, p) == Len(p) <= Len(s) /\ SubSeq(s, 1, Len(p)) = p

\* str(n), n >= 0
RECURSIVE ToStr(_)
ToStr(n) ==
    IF n < 10 THEN <<Digits[n + 1]>>
    ELSE ToStr(n \div 10) \o <<Digits[(n % 10) + 1]>>

\* sep.join(parts)
RECURSIVE Join(_, _)
Join(parts, sep) ==
    IF Len(parts) = 0 THEN <<>>
    ELSE IF Len(parts) = 1 THEN parts[1]
    ELSE parts[1] \o sep \o Join(Tail(parts), sep)

\* a < b on str: by code point, a proper prefix first
StrLess(a, b) ==
    LET n == IF Len(a) < Len(b) THEN Len(a) ELSE Len(b)
        diff == {i \in 1..n : a[i] # b[i]}
    IN  IF diff = {} THEN Len(a) < Len(b)
        ELSE CodePoint(a[Min(diff)]) < CodePoint(b[Min(diff)])

RECURSIVE SortSet(_)
SortSet(S) ==
    IF S = {} THEN <<>>
    ELSE LET m == CHOOSE x \in S : \A y \in S \ {x} : StrLess(x, y)
         IN  <<m>> \o SortSet(S \ {m})

\* the distinct members of a sequence, in order of first occurrence
Distinct(seq) ==
    LET first == {i \in DOMAIN seq : \A j \in 1..(i - 1) : seq[j] # seq[i]}
        RECURSIVE Pick(_)
        Pick(i) ==
            IF i > Len(seq) THEN <<>>
            ELSE IF i \in first THEN <<seq[i]>> \o Pick(i + 1)
            ELSE Pick(i + 1)
    IN  Pick(1)

\* a variant that leaves the keys in insertion order
Unsorted(seq) == Distinct(seq)

\* sorted(...) of the keys of a dict, or of set(list): seq lists the keys in
\* insertion order, or the list
PySorted(seq) == SortSet({seq[i] : i \in DOMAIN seq})

\* s.strip()
Strip(s) ==
    LET idx == {i \in DOMAIN s : ~IsSpace(s[i])}
    IN  IF idx = {} THEN <<>> ELSE SubSeq(s, Min(idx), Max(idx))

\* s.rsplit(' ', 1)
RSplit1(s) ==
    LET sp == {i \in DOMAIN s : s[i] = " "}
    IN  IF sp = {} THEN <<s>>
        ELSE <<SubSeq(s, 1, Max(sp) - 1), SubSeq(s, Max(sp) + 1, Len(s))>>

\* s.split('-')[-1]
AfterLastDash(s) ==
    LET d == {i \in DOMAIN s : s[i] = "-"}
    IN  IF d = {} THEN s ELSE SubSeq(s, Max(d) + 1, Len(s))

\* s.title()
Title(s) ==
    [i \in 1..Len(s) |->
        IF i > 1 /\ IsLetter(s[i - 1]) THEN LowerChar(s[i])
        ELSE UpperChar(s[i])]

\* the index after the digits that start at i
RECURSIVE DigitsEnd(_, _)
DigitsEnd(s, i) ==
    IF i <= Len(s) /\ IsDigit(s[i]) THEN DigitsEnd(s, i + 1) ELSE i

\* the index after the white space that starts at i
RECURSIVE SpacesEnd(_, _)
SpacesEnd(s, i) ==
    IF i <= Len(s) /\ IsSpace(s[i]) THEN SpacesEnd(s, i + 1) ELSE i

\* \d+\.\d+(?:\.\d+)? matched at i: the index after the match, 0 for no match
VersionEnd(s, i) ==
    LET a == DigitsEnd(s, i)
        b == DigitsEnd(s, a + 1)
        c == DigitsEnd(s, b + 1)
    IN  IF a > i /\ a <= Len(s) /\ s[a] = "." /\ b > a + 1
        THEN IF b <= Len(s) /\ s[b] = "." /\ c > b + 1 THEN c ELSE b
        ELSE 0

NoMatch == [ok |-> FALSE, groups |-> <<>>]

\* (\d+\.\d+(?:\.\d+)?)\s*-\s*(\d+\.\d+(?:\.\d+)?) matched at i
VersionRangeAt(s, i) ==
    LET e1 == VersionEnd(s, i)
        d == SpacesEnd(s, e1)
        j == SpacesEnd(s, d + 1)
        e2 == VersionEnd(s, j)
    IN  IF e1 # 0 /\ d <= Len(s) /\ s[d] = "-" /\ e2 # 0
        THEN [ok |-> TRUE,
              groups |-> <<SubSeq(s, i, e1 - 1), SubSeq(s, j, e2 - 1)>>]
        ELSE NoMatch

\* re.search of the version range pattern
VersionSearch(s) ==
    LET at == {i \in DOMAIN s : VersionRangeAt(s, i).ok}
    IN  IF at = {} THEN NoMatch ELSE VersionRangeAt(s, Min(at))

\* re.search of open([^close]+)close, for \(([^)]+)\) and \[([^\]]+)\]
EnclosedSearch(s, open, close) ==
    LET End(i) ==
            {j \in (i + 2)..Len(s) :
                s[j] = close /\ \A k \in (i + 1)..(j - 1) : s[k] # close}
        at == {i \in DOMAIN s : s[i] = open /\ End(i) # {}}
    IN  IF at = {} THEN NoMatch
        ELSE [ok |-> TRUE,
              groups |-> <<SubSeq(s, Min(at) + 1, Min(End(Min(at))) - 1)>>]

(***************************************************************************)
(* SprintReportGenerator.determine_epic_status                             *)
(***************************************************************************)

\* a variant that compares without lower()
IsDoneExact(child) == child.status_category = txtDone

\* child.get('status_category', '').lower() == 'done'
IsDone(child) == Lower(child.status_category) = txtDone

determine_epic_status(epic_data) ==
    LET children == epic_data.children
        done_count == Len(SelectSeq(children, IsDone))
    IN  IF children = <<>> THEN txtUnknown
        ELSE IF done_count = Len(children) THEN txtDoneStatus
        ELSE txtInProgress

(***************************************************************************)
(* SprintReportGenerator.generate_epic_summary                             *)
(***************************************************************************)

Count(seq, x) == Cardinality({i \in DOMAIN seq : seq[i] = x})

\* the key under which one parenthesized "service env" text is tallied
ServiceEnvKey(service_env) ==
    LET parts == RSplit1(service_env)
    IN  IF Len(parts) = 2 THEN parts[1] \o <<" ">> \o parts[2]
        ELSE service_env

\* the tally keys of the done children, one per child whose summary matches
ServiceEnvKeys(done_children) ==
    LET Found(c) == EnclosedSearch(c.summary, "(", ")")
        matched == SelectSeq(done_children, LAMBDA c : Found(c).ok)
    IN  [i \in 1..Len(matched) |->
            ServiceEnvKey(Strip(Found(matched[i]).groups[1]))]

\* env_list
EnvList(done_children) ==
    LET Found(c) == EnclosedSearch(c.summary, "[", "]")
        matched == SelectSeq(done_children, LAMBDA c : Found(c).ok)
    IN  [i \in 1..Len(matched) |-> Found(matched[i]).groups[1]]

\* the branch for an Istio rollout epic
IstioSummary(epic_name, done_children) ==
    LET version_match == VersionSearch(epic_name)
        version_str ==
            IF version_match.ok
            THEN version_match.groups[1] \o txtTo \o version_match.groups[2]
            ELSE txtUpgrade
        tallied == ServiceEnvKeys(done_children)
        items == PySorted(Distinct(tallied))
        summary_parts ==
            [i \in 1..Len(items) |->
                items[i] \o txtDash \o ToStr(Count(tallied, items[i]))
                \o <<" ">>
                \o (IF Count(tallied, items[i]) = 1 THEN txtCluster
                    ELSE txtClusters)]
    IN  IF summary_parts # <<>>
        THEN txtCompletedIstio \o version_str \o txtRolloutColon
             \o Join(summary_parts, txtBr)
        ELSE txtCompletedIstio \o version_str \o txtRolloutAcross
             \o ToStr(Len(done_children)) \o txtClustersDot

\* the branch for an ArgoCD migration epic
ArgocdSummary(epic_name, done_children) ==
    LET component ==
            Title(IF Contains(epic_name, <<"-">>)
                  THEN Strip(AfterLastDash(epic_name))
                  ELSE txtComponent)
        env_list == EnvList(done_children)
        unique_envs == PySorted(env_list)
    IN  IF env_list # <<>>
        THEN IF Len(unique_envs) = 1
             THEN txtMigrated \o component \o txtToArgoIn \o unique_envs[1]
                  \o txtDot
             ELSE txtMigrated \o component \o txtToArgoAcross
                  \o Join(unique_envs, txtCommaSpace) \o txtEnvironments
        ELSE txtCompletedArgo \o component \o txtDot

\* the branch for every other epic
GenericSummary(total, done_count) ==
    IF done_count = total /\ total > 0
    THEN txtCompletedAll \o ToStr(total) \o txtRelatedTasks
    ELSE IF done_count > 0
    THEN txtCompleted \o ToStr(done_count) \o txtOf \o ToStr(total) \o txtTasks
    ELSE ToStr(total) \o txtTasksTracked

\* which branch the lowercased epic name selects
SummaryStrategy(epic_name) ==
    IF Contains(epic_name, txtIstio) /\ Contains(epic_name, txtRollout)
    THEN "istio"
    ELSE IF Contains(epic_name, txtArgocd) THEN "argocd"
    ELSE "generic"

generate_epic_summary(epic_data) ==
    LET children == epic_data.children
        total == Len(children)
        epic_name == Lower(epic_data.epic_name)
        done_children == SelectSeq(children, IsDone)
        done_count == Len(done_children)
        strategy == SummaryStrategy(epic_name)
    IN  IF strategy = "istio" THEN IstioSummary(epic_name, done_children)
        ELSE IF strategy = "argocd"
        THEN ArgocdSummary(epic_name, done_children)
        ELSE GenericSummary(total, done_count)

\* generate_epic_summary raises: .lower() of None, re.search in None
SummaryRaises(epic_data) ==
    \/ epic_data.epic_name = None
    \/ \E i \in DOMAIN epic_data.children :
            epic_data.children[i].status_category = None
    \/ /\ SummaryStrategy(Lower(epic_data.epic_name)) # "generic"
       /\ \E i \in DOMAIN epic_data.children :
            /\ IsDone(epic_data.children[i])
            /\ epic_data.children[i].summary = None

(***************************************************************************)
(* SprintReportGenerator.fetch_sprint_data                                 *)
(***************************************************************************)

\* [self.client.parse_issue(issue) for issue in raws]
ParseAll(raws) == [i \in 1..Len(raws) |-> parse_issue(raws[i]).issue]

ParseRaises(raws) == \E i \in DOMAIN raws : parse_issue(raws[i]).raised

KeysOf(issues) == {issues[i].key : i \in DOMAIN issues}

valid_issue_keys(parsed_issues) == KeysOf(parsed_issues)

epics_in_jql(parsed_issues) ==
    {parsed_issues[i].key :
        i \in {j \in DOMAIN parsed_issues : parsed_issues[j].issuetype = "Epic"}}

epic_links_from_children(parsed_issues) ==
    {parsed_issues[i].epic_link :
        i \in {j \in DOMAIN parsed_issues :
                    TruthyAtom(parsed_issues[j].epic_link)}}

epic_keys_to_fetch(parsed_issues) ==
    epic_links_from_children(parsed_issues) \ epics_in_jql(parsed_issues)

\* a variant that never stores the fetched issues
epic_details_unfetched(parsed_issues, fetched) ==
    LET IsEpic(issue) == issue.issuetype = "Epic"
        assigned == SelectSeq(parsed_issues, IsEpic)
    IN  [k \in KeysOf(assigned) |->
            assigned[Max({i \in DOMAIN assigned : assigned[i].key = k})]]

\* epic_details: the epics of the query, then the fetched issues; a later
\* assignment to a key replaces an earlier one
epic_details_of(parsed_issues, fetched) ==
    LET IsEpic(issue) == issue.issuetype = "Epic"
        assigned == SelectSeq(parsed_issues, IsEpic) \o fetched
    IN  [k \in KeysOf(assigned) |->
            assigned[Max({i \in DOMAIN assigned : assigned[i].key = k})]]

\* filtered_epics
filtered_epics(epics, in_jql, valid_keys) ==
    LET InQuery(child) == child.key \in valid_keys
        Filtered(g) == SelectSeq(g.children, InQuery)
        Kept(g) ==
            /\ \/ g.epic_key \in in_jql
               \/ \E i \in DOMAIN g.children : InQuery(g.children[i])
            /\ \/ Filtered(g) # <<>>
               \/ g.epic_key \in in_jql
        kept == SelectSeq(epics, Kept)
    IN  [i \in 1..Len(kept) |-> [kept[i] EXCEPT !.children = Filtered(kept[i])]]

\* the value fetch_sprint_data returns, from the parsed issues of the query
\* and the parsed issues of the supplementary epic search
GroupedOver(issues, fetched) ==
    LET valid_keys == valid_issue_keys(issues)
        grouped == group_issues_by_parent(issues)
        InQuery(issue) == issue.key \in valid_keys
    IN  [ epics |-> filtered_epics(grouped.epics, epics_in_jql(issues),
                                   valid_keys),
          standalone |-> SelectSeq(grouped.standalone, InQuery),
          epic_details |-> epic_details_of(issues, fetched) ]

\* a variant that adds the fetched issues to parsed_issues
GroupedDataMerged(parsed_issues, fetched) ==
    GroupedOver(parsed_issues \o fetched, fetched)

GroupedData(parsed_issues, fetched) == GroupedOver(parsed_issues, fetched)

NoGroupedData == [epics |-> <<>>, standalone |-> <<>>, epic_details |-> <<>>]

(***************************************************************************)
(* SprintReportGenerator.generate_markdown_report: the rows of the table   *)
(***************************************************************************)

DetailsLimit == 200

\* a variant that prefers the epic name to the summary
epic_description_name_first(summary, epic_name, group_name, epic_key) ==
    PyOr(epic_name,
        PyOr(summary, PyOr(group_name, txtEpic \o <<epic_key>>)))

\* epic_info.get('summary') or epic_info.get('epic_name')
\*     or epic_data.get('epic_name') or f"Epic {epic_key}"
epic_description(summary, epic_name, group_name, epic_key) ==
    PyOr(summary,
        PyOr(epic_name, PyOr(group_name, txtEpic \o <<epic_key>>)))

\* the entry of one epic.  A key inside text is one element of the sequence.
epic_entry(epic_data, epic_details) ==
    LET epic_key == epic_data.epic_key
        known == epic_key \in DOMAIN epic_details
        Info(field, default) ==
            IF known THEN epic_details[epic_key][field] ELSE default
    IN  [ epic_key |-> epic_key,
          description |->
            epic_description(Info("summary", None), Info("epic_name", None),
                             epic_data.epic_name, epic_key),
          targeted_sprint |-> Info("sprint", <<>>),
          status |->
            PyOr(Info("status", None), determine_epic_status(epic_data)),
          details |-> generate_epic_summary(epic_data) ]

\* the entry of one standalone issue
standalone_entry(issue) ==
    [ epic_key |-> issue.key,
      description |-> issue.summary,
      targeted_sprint |-> <<>>,
      status |-> PyOr(issue.status, issue.status_category),
      details |->
        SubSeq(issue.summary, 1,
               IF Len(issue.summary) < DetailsLimit THEN Len(issue.summary)
               ELSE DetailsLimit) ]

epic_entries(grouped) ==
    [i \in 1..Len(grouped.epics) |->
        epic_entry(grouped.epics[i], grouped.epic_details)]
    \o [i \in 1..Len(grouped.standalone) |->
        standalone_entry(grouped.standalone[i])]

\* a variant that compares the status as it is written
get_sort_order_exact(entry) ==
    IF entry.status = txtDone THEN 0
    ELSE IF entry.status = txtInProgressLower THEN 1
    ELSE 2

get_sort_order(entry) ==
    LET status == Lower(entry.status)
    IN  IF status = txtDone THEN 0
        ELSE IF status = txtInProgressLower THEN 1
        ELSE 2

\* sorted(epic_entries, key=get_sort_order): sorted is stable
epic_entries_sorted(entries) ==
    LET Tier(n) == SelectSeq(entries, LAMBDA e : get_sort_order(e) = n)
    IN  Tier(0) \o Tier(1) \o Tier(2)

\* generate_markdown_report raises on the value fetch_sprint_data returned
RenderRaises(grouped) ==
    \/ \E i \in DOMAIN grouped.epics : SummaryRaises(grouped.epics[i])
    \/ \E i \in DOMAIN grouped.standalone :
            \/ grouped.standalone[i].summary = None
            \/ PyOr(grouped.standalone[i].status,
                    grouped.standalone[i].status_category) = None

(***************************************************************************)
(* The issues the server may hold.                                         *)
(***************************************************************************)

MaxIssues == 3      \* the most issues matching the filter query
MaxFetched == 1     \* the most issues answering the supplementary search
MaxPageLimit == 2   \* the largest page the server serves

txtToDo == <<"T", "o", " ", "D", "o">>

txtE1 == <<"e", "1">>

txtN1 == <<"N", "1">>

txtT1 == <<"t", "1">>

txtT2 == <<"t", "2">>

txtT3 == <<"t", "3">>

txtE2 == <<"e", "2">>

txtT4 == <<"t", "4">>

txtB1 == <<"b", "1">>

txtS9 == <<"s", "9">>

txtN9 == <<"N", "9">>

txtX1 == <<"x", "1">>

txtSprint == <<"S", "7">>

BoundedSeq(S, n) == UNION {[1..k -> S] : k \in 0..n}

\* the "fields" member of a raw issue
Fields(type, summary, status, category) ==
    [ summary |-> JStr(summary),
      issuetype |-> JObj([name |-> JAtom(type)]),
      status |->
        JObj([ name |-> JStr(status),
               statusCategory |-> JObj([name |-> JStr(category)]) ]) ]

Raw(key, fields) == JObj([key |-> JAtom(key), fields |-> JObj(fields)])

\* the "parent" member of a raw issue
Parent(key, type) ==
    JObj([ key |-> JAtom(key),
           fields |-> JObj([issuetype |-> JObj([name |-> JAtom(type)])]) ])

\* an epic with an epic name
RawE1 ==
    Raw("E1", Fields("Epic", txtE1, txtInProgress, txtInProgress)
              @@ [customfield_10011 |-> JStr(txtN1),
                  customfield_10014 |-> JNull])

\* a done story under the epic E1, linked by its parent
RawT1 ==
    Raw("T1", Fields("Story", txtT1, txtDoneStatus, txtDoneStatus)
              @@ [parent |-> Parent("E1", "Epic"),
                  customfield_10011 |-> JNull])

\* a task in progress under the epic E9, linked by the custom field
RawT2 ==
    Raw("T2", Fields("Task", txtT2, txtInProgress, txtInProgress)
              @@ [customfield_10014 |-> JAtom("E9"),
                  customfield_10011 |-> JNull])

\* a story with no epic
RawT3 ==
    Raw("T3", Fields("Story", txtT3, txtToDo, txtToDo)
              @@ [customfield_10014 |-> JNull, customfield_10011 |-> JNull])

\* an epic, without an epic name, that itself links to the epic E9
RawE2 ==
    Raw("E2", Fields("Epic", txtE2, txtToDo, txtToDo)
              @@ [customfield_10014 |-> JAtom("E9"),
                  customfield_10011 |-> JNull])

\* a done sub-task whose link names the story T3
RawT4 ==
    Raw("T4", Fields("Sub-task", txtT4, txtDoneStatus, txtDoneStatus)
              @@ [parent |-> Parent("T3", "Story"),
                  customfield_10014 |-> JAtom("T3")])

\* an issue whose status is null
RawB1 ==
    Raw("B1", [ summary |-> JStr(txtB1),
                issuetype |-> JObj([name |-> JAtom("Bug")]),
                status |-> JNull ])

QueryUniverse == {RawE1, RawT1, RawT2, RawT3, RawE2, RawB1}

\* the epic E9 as the supplementary search returns it
RawE9 ==
    Raw("E9", Fields("Epic", txtS9, txtToDo, txtToDo)
              @@ [customfield_10011 |-> JStr(txtN9),
                  customfield_10020 |-> JList(<<JObj([name |-> JStr(txtSprint)])>>)])

\* the epic E9 with neither summary nor epic name nor status
RawE9Bare ==
    Raw("E9", [ issuetype |-> JObj([name |-> JAtom("Epic")]),
                customfield_10011 |-> JNull ])

\* a story of another project
RawX1 ==
    Raw("X1", Fields("Story", txtX1, txtDoneStatus, txtDoneStatus)
              @@ [customfield_10014 |-> JNull])

EpicUniverse == {RawE9, RawE9Bare, RawX1}

(***************************************************************************)
(* JiraClient.search_issues, one page request at a time                    *)
(***************************************************************************)

PageCap == 100

MainMaxResults == 500

\* min(max_results, 100)
PageSize(max) == IF max < PageCap THEN max ELSE PageCap

\* data["issues"] of the response to one request
ServerPage(issues, startAt, maxResults) ==
    LET n == IF maxResults < pageLimit THEN maxResults ELSE pageLimit
        last == IF startAt + n < Len(issues) THEN startAt + n ELSE Len(issues)
    IN  SubSeq(issues, startAt + 1, last)

\* data.get("total", 0)
ServerTotal(issues) == IF reportsTotal THEN Len(issues) ELSE 0

\* a variant that counts requests instead of issues: start_at += 1
NextStartByOne(start, n) == start + 1

\* start_at += len(issues)
NextStart(start, n) == start + n

\* if start_at + len(issues) >= total or len(issues) == 0: break
LoopBreaks(start, n, total) == start + n >= total \/ n = 0

\* a variant that returns what was fetched before the failure
FailureResultPartial(fetched) == fetched

\* except requests.exceptions.RequestException: ... return []
FailureResult(fetched) == <<>>

Searching == pc \in {"search", "epic_search"}

\* search_issues returns result to fetch_sprint_data
Return(result) ==
    /\ query' = "none"
    /\ IF query = "main"
       THEN raw_issues' = result /\ epic_raws' = epic_raws /\ pc' = "parse"
       ELSE epic_raws' = result /\ raw_issues' = raw_issues /\ pc' = "group"

\* one pass of the loop: the request succeeds
FetchPage ==
    /\ Searching
    /\ LET issues == ServerPage(matching, start_at, PageSize(max_results))
           fetched == all_issues \o issues
       IN  /\ requests' =
                Append(requests, [startAt |-> start_at,
                                  maxResults |-> PageSize(max_results)])
           /\ pages' = Append(pages, issues)
           /\ all_issues' = fetched
           /\ IF LoopBreaks(start_at, Len(issues), ServerTotal(matching))
              THEN start_at' = start_at /\ Return(fetched)
              ELSE /\ start_at' = NextStart(start_at, Len(issues))
                   /\ UNCHANGED <<pc, query, raw_issues, epic_raws>>
    /\ UNCHANGED <<server, pageLimit, reportsTotal, matching, max_results,
                   failed, grouped_data, report>>
    /\ UNCHANGED fnVars

\* one pass of the loop: session.get or raise_for_status raises
FailPage ==
    /\ Searching
    /\ \E kind \in {"transport", "status"} :
            failed' = failed \cup {<<query, kind>>}
    /\ requests' =
            Append(requests, [startAt |-> start_at,
                              maxResults |-> PageSize(max_results)])
    /\ Return(FailureResult(all_issues))
    /\ UNCHANGED <<server, pageLimit, reportsTotal, matching, max_results,
                   start_at, all_issues, pages, grouped_data, report>>
    /\ UNCHANGED fnVars

(***************************************************************************)
(* generate_markdown_report, from one call of search_issues to the next    *)
(***************************************************************************)

\* the bookkeeping of a search is dropped when its caller goes on
NoSearch ==
    /\ matching' = <<>>
    /\ max_results' = 0
    /\ start_at' = 0
    /\ all_issues' = <<>>
    /\ requests' = <<>>
    /\ pages' = <<>>

\* fetch_sprint_data from the return of the main search to the supplementary
\* search
Reconcile ==
    /\ pc = "parse"
    /\ IF ParseRaises(raw_issues)
       THEN pc' = "crashed" /\ NoSearch /\ UNCHANGED query
       ELSE LET to_fetch == epic_keys_to_fetch(ParseAll(raw_issues))
            IN  IF to_fetch # {}
                THEN /\ pc' = "epic_search"
                     /\ query' = "epic"
                     /\ matching' \in BoundedSeq(EpicUniverse, MaxFetched)
                     /\ max_results' = Cardinality(to_fetch)
                     /\ start_at' = 0
                     /\ all_issues' = <<>>
                     /\ requests' = <<>>
                     /\ pages' = <<>>
                ELSE pc' = "group" /\ NoSearch /\ UNCHANGED query
    /\ UNCHANGED <<server, pageLimit, reportsTotal, failed, raw_issues,
                   epic_raws, grouped_data, report>>
    /\ UNCHANGED fnVars

\* fetch_sprint_data from the return of the supplementary search to its own
\* return
GroupAndFilter ==
    /\ pc = "group"
    /\ IF ParseRaises(epic_raws)
       THEN pc' = "crashed" /\ UNCHANGED grouped_data
       ELSE /\ pc' = "render"
            /\ grouped_data' =
                    GroupedData(ParseAll(raw_issues), ParseAll(epic_raws))
    /\ NoSearch
    /\ UNCHANGED <<server, pageLimit, reportsTotal, query, failed,
                   raw_issues, epic_raws, report>>
    /\ UNCHANGED fnVars

\* generate_markdown_report after fetch_sprint_data
Render ==
    /\ pc = "render"
    /\ IF RenderRaises(grouped_data)
       THEN pc' = "crashed" /\ UNCHANGED report
       ELSE /\ pc' = "done"
            /\ report' = epic_entries_sorted(epic_entries(grouped_data))
    /\ UNCHANGED <<server, pageLimit, reportsTotal, query, matching,
                   max_results, start_at, all_issues, requests, pages, failed,
                   raw_issues, epic_raws, grouped_data>>
    /\ UNCHANGED fnVars

FnIdle == fn_pc = "idle" /\ fn_in = <<>> /\ fn_out = <<>>

Init ==
    /\ pc = "search"
    /\ server \in BoundedSeq(QueryUniverse, MaxIssues)
    /\ pageLimit \in 1..MaxPageLimit
    /\ reportsTotal \in BOOLEAN
    /\ query = "main"
    /\ matching = server
    /\ max_results = MainMaxResults
    /\ start_at = 0
    /\ all_issues = <<>>
    /\ requests = <<>>
    /\ pages = <<>>
    /\ failed = {}
    /\ raw_issues = <<>>
    /\ epic_raws = <<>>
    /\ grouped_data = NoGroupedData
    /\ report = <<>>
    /\ FnIdle

Next == FetchPage \/ FailPage \/ Reconcile \/ GroupAndFilter \/ Render

Spec == Init /\ [][Next]_vars

(***************************************************************************)
(* Unit specifications: one function applied to one argument.              *)
(***************************************************************************)

MaxGroupLen == 3    \* the most issues given to group_issues_by_parent
MaxChildren == 3    \* the most children of the epic given to the renderer

txtT5 == <<"t", "5">>

txtDONE == <<"D", "O", "N", "E">>

nameIstio ==
    <<"I", "s", "t", "i", "o", " ", "R", "o", "l", "l", "o", "u", "t", " ",
      "1", ".", "2", "8", " ", "-", " ", "1", ".", "2", "9">>

nameIstioPlain ==
    <<"I", "S", "T", "I", "O", " ", "r", "o", "l", "l", "o", "u", "t">>

nameArgo ==
    <<"A", "r", "g", "o", "C", "D", " ", "m", "i", "g", "r", "a", "t", "i",
      "o", "n", " ", "-", " ", "c", "e", "r", "t", " ", "m", "a", "n", "a",
      "g", "e", "r">>

nameArgoPlain == <<"a", "r", "g", "o", "c", "d">>

nameAll ==
    <<"R", "o", "l", "l", "o", "u", "t", " ", "o", "f", " ", "i", "s", "t",
      "i", "o", " ", "v", "i", "a", " ", "a", "r", "g", "o", "c", "d">>

nameGeneric == <<"U", "p", "g", "r", "a", "d", "e">>

nameIstioOnly == <<"i", "s", "t", "i", "o", " ", "m", "e", "s", "h">>

sumSvcProd ==
    <<"U", "p", "g", "r", "a", "d", "e", " ", "(", "s", "v", "c", " ", "p",
      "r", "o", "d", ")">>

sumSvcDev ==
    <<"(", "s", "v", "c", " ", "d", "e", "v", ")", " ", "[", "d", "e", "v",
      "]">>

sumProd == <<"[", "p", "r", "o", "d", "]", " ", "m", "o", "v", "e">>

sumApi ==
    <<"(", "a", "p", "i", ")", " ", "i", "n", " ", "[", "D", "e", "v", "]">>

sumNone == <<"c", "l", "e", "a", "n", "u", "p">>

\* the pipeline does not run in a unit specification
PipeIdle ==
    /\ pc = "idle"
    /\ server = <<>>
    /\ pageLimit = 1
    /\ reportsTotal = TRUE
    /\ query = "none"
    /\ matching = <<>>
    /\ max_results = 0
    /\ start_at = 0
    /\ all_issues = <<>>
    /\ requests = <<>>
    /\ pages = <<>>
    /\ failed = {}
    /\ raw_issues = <<>>
    /\ epic_raws = <<>>
    /\ grouped_data = NoGroupedData
    /\ report = <<>>

\* a second issue under the epic E1, in progress
RawT5 ==
    Raw("T5", Fields("Task", txtT5, txtInProgress, txtInProgress)
              @@ [customfield_10014 |-> JAtom("E1"),
                  customfield_10011 |-> JNull])

\* group_issues_by_parent is given issues that parse_issue returned
GroupUniverse ==
    {parse_issue(r).issue :
        r \in {RawE1, RawT1, RawT5, RawT2, RawT3, RawE2, RawT4}}

GroupInit ==
    /\ PipeIdle
    /\ fn_pc = "call"
    /\ fn_in \in BoundedSeq(GroupUniverse, MaxGroupLen)
    /\ fn_out = [epics |-> <<>>, standalone |-> <<>>]

CallGroup ==
    /\ fn_pc = "call"
    /\ fn_pc' = "ret"
    /\ fn_out' = group_issues_by_parent(fn_in)
    /\ UNCHANGED fn_in
    /\ UNCHANGED pipeVars

GroupNext == CallGroup

SpecGroup == GroupInit /\ [][GroupNext]_vars

\* the children the renderer reads: a summary and a status category
Child(summary, category) ==
    [summary |-> summary, status_category |-> category]

StatusCategories ==
    {txtDone, txtDoneStatus, txtDONE, txtInProgress, txtToDo, <<>>}

StatusUniverse == {Child(sumNone, c) : c \in StatusCategories}

StatusInit ==
    /\ PipeIdle
    /\ fn_pc = "call"
    /\ fn_in \in
        {[epic_key |-> "E1", epic_name |-> nameGeneric, children |-> ch] :
            ch \in BoundedSeq(StatusUniverse, MaxChildren)}
    /\ fn_out = <<>>

CallStatus ==
    /\ fn_pc = "call"
    /\ fn_pc' = "ret"
    /\ fn_out' = determine_epic_status(fn_in)
    /\ UNCHANGED fn_in
    /\ UNCHANGED pipeVars

StatusNext == CallStatus

SpecStatus == StatusInit /\ [][StatusNext]_vars

EpicNames ==
    {nameIstio, nameIstioPlain, nameArgo, nameArgoPlain, nameAll,
     nameGeneric, nameIstioOnly}

SummaryUniverse ==
    {Child(sumSvcProd, txtDoneStatus), Child(sumSvcDev, txtDone),
     Child(sumProd, txtDoneStatus), Child(sumApi, txtDONE),
     Child(sumSvcProd, txtInProgress), Child(sumNone, txtDoneStatus)}

SummaryInit ==
    /\ PipeIdle
    /\ fn_pc = "call"
    /\ fn_in \in
        {[epic_key |-> "E1", epic_name |-> n, children |-> ch] :
            n \in EpicNames, ch \in BoundedSeq(SummaryUniverse, MaxChildren)}
    /\ fn_out = <<>>

CallSummary ==
    /\ fn_pc = "call"
    /\ fn_pc' = "ret"
    /\ fn_out' = generate_epic_summary(fn_in)
    /\ UNCHANGED fn_in
    /\ UNCHANGED pipeVars

SummaryNext == CallSummary

SpecSummary == SummaryInit /\ [][SummaryNext]_vars

(***************************************************************************)
(* Properties.                                                             *)
(***************************************************************************)

\* the issues of the original query, as fetch_sprint_data parsed them
Parsed == ParseAll(raw_issues)

\* the issues of the supplementary epic search
Fetched == ParseAll(epic_raws)

\* the key set of the original query
K == KeysOf(Parsed)

Members(seq) == {seq[i] : i \in DOMAIN seq}

\* the issues held as children of some EpicGroup
AllChildren(grouped) ==
    UNION {Members(grouped.epics[i].children) : i \in DOMAIN grouped.epics}

\* C1: after fetch_sprint_data, every issue held in an EpicGroup's children
\* or in standalone is an issue of the query, with a key in K; an issue that
\* only the supplementary search returned is in epic_details and is neither
\* a child nor a standalone entry.
C1_ReportedIssuesComeFromQuery ==
    pc \in {"render", "done"} =>
        LET held ==
                AllChildren(grouped_data) \cup Members(grouped_data.standalone)
        IN  /\ \A issue \in held : issue.key \in K /\ issue \in Members(Parsed)
            /\ \A f \in Members(Fetched) :
                    f.key \notin K =>
                        /\ f.key \in DOMAIN grouped_data.epic_details
                        /\ \A issue \in held : issue.key # f.key

\* C1: the search returned a story outside the query, and the report holds
\* children and standalone issues
C1_Witness ==
    /\ pc = "done"
    /\ \E f \in Members(Fetched) : f.key \notin K /\ f.issuetype # "Epic"
    /\ AllChildren(grouped_data) # {}
    /\ grouped_data.standalone # <<>>

RowKeys == {report[i].epic_key : i \in DOMAIN report}

\* the epic keys that issues of the query, other than epics, link to
LinkedEpicKeys ==
    {issue.epic_link :
        issue \in {x \in Members(Parsed) :
                        x.issuetype # "Epic" /\ TruthyAtom(x.epic_link)}}

\* C2 as stated: every key in a row of the report table is in K.
C2_Original == pc = "done" => RowKeys \subseteq K

\* C2, amended: every key in a row of the report table is in K, or is the
\* key of an epic outside the query that an issue of the query, not itself an
\* epic, links to; such a row is the row of an EpicGroup whose children are
\* all in K.
C2_RowKeysFromQueryOrLinkedEpic ==
    pc = "done" =>
        /\ RowKeys \subseteq K \cup LinkedEpicKeys
        /\ \A k \in RowKeys \ K :
                /\ DictHas(grouped_data.epics, k)
                /\ DictGet(grouped_data.epics, k).children # <<>>
                /\ KeysOf(DictGet(grouped_data.epics, k).children) \subseteq K

\* C2: the table has a row of an epic outside the query and a row of an
\* issue of the query
C2_Witness ==
    /\ pc = "done"
    /\ RowKeys \ K # {}
    /\ RowKeys \cap K # {}

\* the epic keys that issues of the query link to and that no issue of the
\* query has
AbsentLinked ==
    {issue.epic_link :
        issue \in {x \in Members(Parsed) : TruthyAtom(x.epic_link)}} \ K

\* the issue the supplementary search returned last for key E
LastFetched(E) ==
    Fetched[Max({i \in DOMAIN Fetched : Fetched[i].key = E})]

RowsFor(E) == {i \in DOMAIN report : report[i].epic_key = E}

LinkersOf(E) == SelectSeq(Parsed, LAMBDA x : x.epic_link = E)

NonEpicLinkersOf(E) ==
    SelectSeq(Parsed, LAMBDA x : x.issuetype # "Epic" /\ x.epic_link = E)

\* C3 as stated: an epic key E linked from the query and absent from it is
\* in epicKeysToFetch; when the supplementary search returns E, the table
\* has exactly one row for E, described by the fetched epic name, and the
\* children of E are exactly the issues of the query that link to E.
C3_Original ==
    pc = "done" =>
        \A E \in AbsentLinked :
            /\ E \in epic_keys_to_fetch(Parsed)
            /\ E \in KeysOf(Fetched) =>
                /\ Cardinality(RowsFor(E)) = 1
                /\ \A i \in RowsFor(E) :
                        report[i].description = LastFetched(E).epic_name
                /\ DictHas(grouped_data.epics, E)
                /\ DictGet(grouped_data.epics, E).children = LinkersOf(E)

\* the description of the row of an epic outside the query
FetchedDescription(E) ==
    IF Truthy(LastFetched(E).summary) THEN LastFetched(E).summary
    ELSE IF Truthy(LastFetched(E).epic_name) THEN LastFetched(E).epic_name
    ELSE txtEpic \o <<E>>

\* C3, amended: an epic key E linked from the query and absent from it is
\* in epicKeysToFetch; when an issue of the query that is not itself an epic
\* links to E and the supplementary search returns E, the table has exactly
\* one row for E, described by the fetched summary of E, or by its fetched
\* epic name when the summary is empty, or by "Epic E" when both are, and
\* the children of E are exactly the issues of the query, other than epics,
\* that link to E.
C3_AbsentEpicRow ==
    pc = "done" =>
        \A E \in AbsentLinked :
            /\ E \in epic_keys_to_fetch(Parsed)
            /\ (E \in KeysOf(Fetched) /\ NonEpicLinkersOf(E) # <<>>) =>
                /\ Cardinality(RowsFor(E)) = 1
                /\ \A i \in RowsFor(E) :
                        report[i].description = FetchedDescription(E)
                /\ DictHas(grouped_data.epics, E)
                /\ DictGet(grouped_data.epics, E).children
                        = NonEpicLinkersOf(E)

\* C3: the query holds a task under the absent epic E9 and the search
\* returned E9 with a summary and an epic name
C3_Witness ==
    /\ pc = "done"
    /\ \E E \in AbsentLinked :
            /\ E \in KeysOf(Fetched)
            /\ NonEpicLinkersOf(E) # <<>>
            /\ Truthy(LastFetched(E).summary)
            /\ Truthy(LastFetched(E).epic_name)

RECURSIVE IsSubseq(_, _)
IsSubseq(a, b) ==
    IF a = <<>> THEN TRUE
    ELSE IF b = <<>> THEN FALSE
    ELSE IF Head(a) = Head(b) THEN IsSubseq(Tail(a), Tail(b))
    ELSE IsSubseq(a, Tail(b))

\* C4: the children of each EpicGroup that group_issues_by_parent returns
\* are in the relative order of the input: they are a subsequence of the
\* input's issues, other than epics, that link to the group's key.
C4_ChildrenKeepInputOrder ==
    fn_pc = "ret" =>
        \A i \in DOMAIN fn_out.epics :
            IsSubseq(fn_out.epics[i].children,
                     SelectSeq(fn_in,
                        LAMBDA x : /\ x.issuetype # "Epic"
                                   /\ x.epic_link = fn_out.epics[i].epic_key))

\* C4: a group with two different children
C4_Witness ==
    /\ fn_pc = "ret"
    /\ \E i \in DOMAIN fn_out.epics :
            /\ Len(fn_out.epics[i].children) >= 2
            /\ fn_out.epics[i].children[1] # fn_out.epics[i].children[2]

\* every spelling of "done" in upper and lower case
DoneSpellings ==
    {<<a, b, c, d>> :
        a \in {"d", "D"}, b \in {"o", "O"}, c \in {"n", "N"}, d \in {"e", "E"}}

AllDone(children) ==
    \A i \in DOMAIN children : children[i].status_category \in DoneSpellings

\* C5: determine_epic_status returns "Done" exactly when there are children
\* and every child's status_category is "done" in any case, "Unknown"
\* exactly when there are no children, and "In Progress" otherwise.
C5_EpicStatus ==
    fn_pc = "ret" =>
        /\ fn_out = txtDoneStatus <=>
                (fn_in.children # <<>> /\ AllDone(fn_in.children))
        /\ fn_out = txtUnknown <=> fn_in.children = <<>>
        /\ (fn_in.children # <<>> /\ ~AllDone(fn_in.children)) =>
                fn_out = txtInProgress

\* C5: "Done" for children whose categories are spelled in different cases
C5_Witness ==
    /\ fn_pc = "ret"
    /\ fn_out = txtDoneStatus
    /\ \E i, j \in DOMAIN fn_in.children :
            /\ fn_in.children[i].status_category = txtDONE
            /\ fn_in.children[j].status_category = txtDoneStatus

EndsWith(s, p) ==
    Len(p) <= Len(s) /\ SubSeq(s, Len(s) - Len(p) + 1, Len(s)) = p

\* the sentences of the three strategies
IsIstioText(s) == StartsWith(s, txtCompletedIstio)

IsArgocdText(s) ==
    StartsWith(s, txtMigrated) \/ StartsWith(s, txtCompletedArgo)

IsGenericText(s) ==
    \/ StartsWith(s, txtCompletedAll) /\ EndsWith(s, txtRelatedTasks)
    \/ /\ StartsWith(s, txtCompleted)
       /\ Contains(s, txtOf)
       /\ EndsWith(s, txtTasks)
       /\ ~StartsWith(s, txtCompletedAll)
    \/ IsDigit(s[1]) /\ EndsWith(s, txtTasksTracked)

\* the permutations of 1..n
Perms(n) ==
    {p \in [1..n -> 1..n] : \A i, j \in 1..n : i # j => p[i] # p[j]}

Reordered(seq, p) == [i \in 1..Len(seq) |-> seq[p[i]]]

\* C7: generate_epic_summary writes the sentence of exactly one strategy,
\* the one its lowercased epic name selects in priority order (both "istio"
\* and "rollout", else "argocd", else the generic one), and the summary is
\* the same for every order of the children, in which the tallied pairs and
\* the environments are discovered.
C7_SummaryByNameAndOrderFree ==
    fn_pc = "ret" =>
        LET name == Lower(fn_in.epic_name)
            istio == Contains(name, txtIstio) /\ Contains(name, txtRollout)
            argocd == ~istio /\ Contains(name, txtArgocd)
        IN  /\ IsIstioText(fn_out) <=> istio
            /\ IsArgocdText(fn_out) <=> argocd
            /\ IsGenericText(fn_out) <=> (~istio /\ ~argocd)
            /\ \A p \in Perms(Len(fn_in.children)) :
                    generate_epic_summary(
                        [fn_in EXCEPT !.children = Reordered(@, p)]) = fn_out

\* C7: an Istio rollout summary with two tally lines
C7_Witness ==
    /\ fn_pc = "ret"
    /\ IsIstioText(fn_out)
    /\ Contains(fn_out, txtDash \o <<"1">>)
    /\ Contains(fn_out, txtBr \o <<"s">>)

RECURSIVE Concat(_)
Concat(seqs) ==
    IF seqs = <<>> THEN <<>> ELSE Head(seqs) \o Concat(Tail(seqs))

\* search_issues has returned and its caller has not gone on
SearchOver == pc \in {"parse", "group"} /\ requests # <<>>

\* the search that is in progress or over
SearchOf == IF pc \in {"search", "parse"} THEN "main" ELSE "epic"

\* a request of that search has failed
FailedNow == \E kind \in {"transport", "status"} : <<SearchOf, kind>> \in failed

\* what that search returned
Result == IF pc = "parse" THEN raw_issues ELSE epic_raws

\* the issues received in the first i pages
Cumulative(i) == Len(Concat(SubSeq(pages, 1, i)))

\* the pages after which the loop went on
NonFinal ==
    IF SearchOver /\ ~FailedNow THEN 1..(Len(pages) - 1) ELSE 1..Len(pages)

\* C8: while no request fails, search_issues asks for pages of
\* min(max_results, 100) issues at strictly increasing offsets, each the
\* number of issues received so far; it goes on after a page exactly when
\* the page is not empty and the issues received so far are fewer than the
\* reported total; from a server that reports its total it returns, after at
\* most one request per matching issue, the concatenation of the pages,
\* which is every matching issue once, in server order.
C8_Pagination ==
    (Searching \/ SearchOver) =>
        /\ \A i \in DOMAIN requests :
                requests[i].maxResults
                    = (IF max_results < 100 THEN max_results ELSE 100)
        /\ \A i, j \in DOMAIN requests :
                i < j => requests[i].startAt < requests[j].startAt
        /\ \A i \in DOMAIN requests : requests[i].startAt = Cumulative(i - 1)
        /\ \A i \in NonFinal :
                pages[i] # <<>> /\ Cumulative(i) < ServerTotal(matching)
        /\ (SearchOver /\ ~FailedNow) =>
                /\ Len(pages) = Len(requests)
                /\ \/ pages[Len(pages)] = <<>>
                   \/ Cumulative(Len(pages)) >= ServerTotal(matching)
                /\ Result = Concat(pages)
        /\ (SearchOver /\ ~FailedNow /\ reportsTotal) =>
                /\ Result = matching
                /\ Len(requests) <= (IF matching = <<>> THEN 1 ELSE Len(matching))

\* C8: a search that took more than one page, of a server that reports its
\* total
C8_Witness ==
    /\ SearchOver
    /\ ~FailedNow
    /\ reportsTotal
    /\ Len(pages) >= 2

MainFailed == \E kind \in {"transport", "status"} : <<"main", kind>> \in failed

EpicFailed == \E kind \in {"transport", "status"} : <<"epic", kind>> \in failed

\* C9: when a page request of search_issues fails, with a transport error or
\* a status that is not 2xx, search_issues returns the empty sequence to its
\* caller and raises nothing. After a failure of the main search no later
\* step raises: fetch_sprint_data parses nothing, makes no supplementary
\* search and returns an empty grouping, and the report has no row. After a
\* failure of the supplementary search fetch_sprint_data goes on and groups
\* the query's issues with no fetched epic.
C9_FailureGivesEmptyResult ==
    /\ MainFailed =>
            /\ raw_issues = <<>>
            /\ ~EpicFailed
            /\ pc \in {"parse", "group", "render", "done"}
            /\ pc = "parse" => ~ParseRaises(raw_issues)
            /\ pc = "group" => ~ParseRaises(epic_raws)
            /\ pc = "render" => ~RenderRaises(grouped_data)
            /\ pc \in {"render", "done"} => grouped_data = NoGroupedData
            /\ pc = "done" => report = <<>>
    /\ EpicFailed =>
            /\ epic_raws = <<>>
            /\ pc \in {"group", "render", "done", "crashed"}
            /\ pc = "group" => ~ParseRaises(epic_raws)
            /\ pc \in {"render", "done"} =>
                    grouped_data = GroupedData(ParseAll(raw_issues), <<>>)

\* C9: the report is finished after a failed request for a query that
\* matches issues, for either kind of failure
C9_Witness ==
    /\ pc = "done"
    /\ server # <<>>
    /\ <<"main", "status">> \in failed
    /\ report = <<>>

\* C10 as stated: when page k > 1 fails after pages 1..k-1 succeeded,
\* search_issues returns the issues of pages 1..k-1.
C10_Original ==
    (SearchOver /\ FailedNow /\ Len(pages) >= 1) => Result = Concat(pages)

\* C10, amended: when page k > 1 fails after pages 1..k-1 succeeded,
\* search_issues returns the empty sequence: the issues of pages 1..k-1,
\* which all_issues holds, are dropped with the failed page.
C10_FailureDropsEarlierPages ==
    (SearchOver /\ FailedNow /\ Len(pages) >= 1) =>
        /\ Result = <<>>
        /\ all_issues = Concat(pages)
        /\ all_issues # <<>>

\* C10: the second request fails after a first page with issues
C10_Witness ==
    /\ SearchOver
    /\ FailedNow
    /\ Len(pages) >= 1
    /\ Len(requests) = Len(pages) + 1
    /\ Concat(pages) # <<>>

(***************************************************************************)
(* parse_issue applied to one raw issue.  A raw issue is put together from *)
(* one choice for each member the function reads: absent, null, or a       *)
(* value.                                                                  *)
(***************************************************************************)

txtAnn == <<"A", "n", "n">>

txtDay == <<"2", "0", "2", "5">>

\* a parent of type Epic whose issuetype is null
ParentNullType ==
    JObj([key |-> JAtom("E1"), fields |-> JObj([issuetype |-> JNull])])

ParentChoices ==
    { <<>>,
      [parent |-> JNull],
      [parent |-> Parent("E1", "Epic")],
      [parent |-> Parent("T9", "Story")],
      [parent |-> ParentNullType] }

LinkChoices ==
    { <<>>,
      [customfield_10014 |-> JNull],
      [customfield_10014 |-> JAtom("E9")] }

StatusChoices ==
    { <<>>,
      [status |-> JNull],
      [status |-> JObj([name |-> JStr(txtToDo)])],
      [status |-> JObj([name |-> JStr(txtToDo), statusCategory |-> JNull])],
      [status |->
        JObj([ name |-> JStr(txtToDo),
               statusCategory |-> JObj([name |-> JStr(txtToDo)]) ])] }

SummaryChoices ==
    {<<>>, [summary |-> JNull], [summary |-> JStr(txtT1)]}

TypeChoices ==
    { <<>>,
      [issuetype |-> JNull],
      [issuetype |-> JObj([name |-> JAtom("Task")])] }

AssigneeChoices ==
    { <<>>,
      [assignee |-> JNull],
      [assignee |-> JObj([displayName |-> JStr(txtAnn)])] }

SprintChoices ==
    { <<>>,
      [customfield_10020 |-> JNull],
      [customfield_10020 |-> JList(<<>>)],
      [customfield_10020 |-> JList(<<JObj([name |-> JStr(txtSprint)])>>)] }

\* epic name, created and updated: all absent, all null, or all given
OtherChoices ==
    { <<>>,
      [ customfield_10011 |-> JNull, created |-> JNull, updated |-> JNull ],
      [ customfield_10011 |-> JStr(txtN1), created |-> JStr(txtDay),
        updated |-> JStr(txtDay) ] }

ParseUniverse ==
    {Raw("T1", p @@ l @@ st @@ su @@ ty @@ a @@ sp @@ o) :
        p \in ParentChoices, l \in LinkChoices, st \in StatusChoices,
        su \in SummaryChoices, ty \in TypeChoices, a \in AssigneeChoices,
        sp \in SprintChoices, o \in OtherChoices}

ParseInit ==
    /\ PipeIdle
    /\ fn_pc = "call"
    /\ fn_in \in ParseUniverse
    /\ fn_out = <<>>

CallParse ==
    /\ fn_pc = "call"
    /\ fn_pc' = "ret"
    /\ fn_out' = parse_issue(fn_in)
    /\ UNCHANGED fn_in
    /\ UNCHANGED pipeVars

ParseNext == CallParse

SpecParse == ParseInit /\ [][ParseNext]_vars

\* the members of the raw issue that parse_issue was given
RawFields == fn_in.v.fields.v

\* the raw issue has a parent reference whose issue type is "Epic"
HasEpicParent ==
    /\ "parent" \in DOMAIN RawFields
    /\ RawFields.parent.t = "obj"
    /\ RawFields.parent.v.fields.v.issuetype = JObj([name |-> JAtom("Epic")])

\* C11: when parse_issue returns, epic_link is the key of the parent when
\* the raw issue has a parent whose issue type is "Epic"; otherwise it is
\* the value of customfield_10014 when the raw issue has that member, null
\* when the member is null; otherwise it is the empty string.  A parent of
\* another type never supplies epic_link.
C11_EpicLinkPrecedence ==
    (fn_pc = "ret" /\ ~fn_out.raised) =>
        LET epic_link == fn_out.issue.epic_link
        IN  /\ HasEpicParent => epic_link = RawFields.parent.v.key.v
            /\ (~HasEpicParent /\ "customfield_10014" \in DOMAIN RawFields) =>
                    epic_link = Atom(RawFields.customfield_10014)
            /\ (~HasEpicParent /\ "customfield_10014" \notin DOMAIN RawFields) =>
                    epic_link = ""
            /\ ("parent" \in DOMAIN RawFields /\ ~HasEpicParent) =>
                    epic_link \in {"", "E9", NoneAtom}

\* C11: an issue with an Epic parent and another key in customfield_10014
C11_Witness ==
    /\ fn_pc = "ret"
    /\ ~fn_out.raised
    /\ HasEpicParent
    /\ "customfield_10014" \in DOMAIN RawFields
    /\ RawFields.customfield_10014 = JAtom("E9")
    /\ fn_out.issue.epic_link = "E1"

\* the text fields and the key fields of a normalized issue
TextFields ==
    {"summary", "status", "status_category", "epic_name", "sprint",
     "assignee", "created", "updated"}

AtomFields == {"key", "issuetype", "epic_link"}

\* C12 as stated: for every raw issue, whichever members and nested levels
\* are absent or null, parse_issue raises nothing and every string field of
\* the issue it returns is a string, never null.
C12_Original ==
    fn_pc = "ret" =>
        /\ ~fn_out.raised
        /\ \A f \in TextFields : fn_out.issue[f] # None
        /\ \A f \in AtomFields : fn_out.issue[f] # NoneAtom

\* C12: parse_issue raised on an issue whose status is null, and returned an
\* issue with a null epic_link for one whose customfield_10014 is null
C12_Witness ==
    /\ fn_pc = "ret"
    /\ "status" \in DOMAIN RawFields
    /\ \/ RawFields.status = JNull /\ fn_out.raised
       \/ /\ ~fn_out.raised
          /\ "customfield_10014" \in DOMAIN RawFields
          /\ RawFields.customfield_10014 = JNull
          /\ fn_out.issue.epic_link = NoneAtom

\* the groups and the standalone issues that fetch_sprint_data returned
Groups == {grouped_data.epics[i] : i \in DOMAIN grouped_data.epics}

Standalone == Members(grouped_data.standalone)

\* the descriptions of the rows with key k
DescriptionsOf(k) ==
    {report[i].description : i \in {j \in DOMAIN report : report[j].epic_key = k}}

\* the epic's own summary and name: those of its issue in epic_details, the
\* epic of the query or the fetched one; an epic without details has the
\* name of its group and no summary
OwnSummary(g) ==
    IF g.epic_key \in DOMAIN grouped_data.epic_details
    THEN grouped_data.epic_details[g.epic_key].summary
    ELSE <<>>

OwnName(g) ==
    IF /\ g.epic_key \in DOMAIN grouped_data.epic_details
       /\ Truthy(grouped_data.epic_details[g.epic_key].epic_name)
    THEN grouped_data.epic_details[g.epic_key].epic_name
    ELSE g.epic_name

\* C13 as stated: the description of an epic row is the epic's name when it
\* is not empty, otherwise the epic's summary, otherwise "Epic {key}"; the
\* description of a standalone row is the issue's summary.
C13_Original ==
    pc = "done" =>
        /\ \A g \in Groups :
                DescriptionsOf(g.epic_key) =
                    { IF Truthy(OwnName(g)) THEN OwnName(g)
                      ELSE IF Truthy(OwnSummary(g)) THEN OwnSummary(g)
                      ELSE txtEpic \o <<g.epic_key>> }
        /\ \A issue \in Standalone :
                DescriptionsOf(issue.key) = {issue.summary}

\* C13, amended: the description of an epic row is the epic's own summary
\* when it is not empty, otherwise the epic's name, otherwise "Epic {key}";
\* the description of a standalone row is the issue's summary.
C13_DescriptionSummaryFirst ==
    pc = "done" =>
        /\ \A g \in Groups :
                DescriptionsOf(g.epic_key) =
                    { IF Truthy(OwnSummary(g)) THEN OwnSummary(g)
                      ELSE IF Truthy(OwnName(g)) THEN OwnName(g)
                      ELSE txtEpic \o <<g.epic_key>> }
        /\ \A issue \in Standalone :
                DescriptionsOf(issue.key) = {issue.summary}

\* C13: the table has the row of an epic with a summary and another name,
\* the row of an epic with neither, and a standalone row
C13_Witness ==
    /\ pc = "done"
    /\ \E g \in Groups :
            /\ Truthy(OwnSummary(g))
            /\ Truthy(OwnName(g))
            /\ OwnName(g) # OwnSummary(g)
    /\ \E g \in Groups : ~Truthy(OwnSummary(g)) /\ ~Truthy(OwnName(g))
    /\ Standalone # {}

\* the rows before they are sorted: the epic rows in the order of the
\* groups, then the standalone rows in the order of the query
UnsortedRows == epic_entries(grouped_data)

\* two texts are equal when the case of their letters is ignored
SameIgnoringCase(a, b) ==
    /\ Len(a) = Len(b)
    /\ \A i \in DOMAIN a : LowerChar(a[i]) = LowerChar(b[i])

\* the priority of a row: 0 for "done", 1 for "in progress", 2 otherwise
Priority(row) ==
    IF SameIgnoringCase(row.status, txtDone) THEN 0
    ELSE IF SameIgnoringCase(row.status, txtInProgressLower) THEN 1
    ELSE 2

\* C14: the rows of the table are the rows of the epics and of the
\* standalone issues in order of priority, "done" before "in progress"
\* before the rest, however the status is capitalised, and two rows of the
\* same priority are in the order they had before the sort: epic rows in
\* group order, then standalone rows in query order.
C14_StableSortByStatus ==
    pc = "done" =>
        /\ Len(report) = Len(UnsortedRows)
        /\ \A i, j \in DOMAIN report :
                i < j => Priority(report[i]) <= Priority(report[j])
        /\ \E p \in Perms(Len(report)) :
                /\ \A i \in DOMAIN report : report[i] = UnsortedRows[p[i]]
                /\ \A i, j \in DOMAIN report :
                        (i < j /\ Priority(report[i]) = Priority(report[j]))
                            => p[i] < p[j]

\* C14: the sort moved a row, and the table has two different rows of one
\* priority, an epic row and a standalone row
C14_Witness ==
    /\ pc = "done"
    /\ report # UnsortedRows
    /\ \E i, j \in DOMAIN report :
            /\ i < j
            /\ Priority(report[i]) = Priority(report[j])
            /\ report[i] # report[j]
            /\ report[i].epic_key \in DictKeys(grouped_data.epics)
            /\ report[j].epic_key \in KeysOf(grouped_data.standalone)

\* the keys of the issues given to group_issues_by_parent are distinct
DistinctKeys(issues) ==
    \A i, j \in DOMAIN issues : issues[i].key = issues[j].key => i = j

\* the number of times the issue is held in the output under the epic key k
HeldUnder(out, issue, k) ==
    IF DictHas(out.epics, k)
    THEN Count(DictGet(out.epics, k).children, issue)
    ELSE 0

\* the number of times the issue is held in the output, anywhere
HeldAnywhere(out, issue) ==
    Count(out.standalone, issue)
    + Count(Concat([i \in DOMAIN out.epics |-> out.epics[i].children]), issue)

\* C15 as stated: group_issues_by_parent loses no issue.  For an input with
\* distinct keys, every issue that is not an epic is held exactly once in
\* the output: in the children of the EpicGroup of its epic_link when it has
\* one, also when it precedes that epic in the input, and in standalone
\* otherwise.
C15_Original ==
    (fn_pc = "ret" /\ DistinctKeys(fn_in)) =>
        \A i \in DOMAIN fn_in :
            LET issue == fn_in[i]
            IN  issue.issuetype # "Epic" =>
                    /\ HeldAnywhere(fn_out, issue) = 1
                    /\ IF TruthyAtom(issue.epic_link)
                       THEN HeldUnder(fn_out, issue, issue.epic_link) = 1
                       ELSE Count(fn_out.standalone, issue) = 1

\* C15: a child preceded its epic in the input, and the epic's group has no
\* child
C15_Witness ==
    /\ fn_pc = "ret"
    /\ DistinctKeys(fn_in)
    /\ \E i, j \in DOMAIN fn_in :
            /\ i < j
            /\ fn_in[i].issuetype # "Epic"
            /\ fn_in[j].issuetype = "Epic"
            /\ fn_in[i].epic_link = fn_in[j].key
            /\ DictHas(fn_out.epics, fn_in[j].key)
            /\ DictGet(fn_out.epics, fn_in[j].key).children = <<>>
            /\ HeldAnywhere(fn_out, fn_in[i]) = 0

\* the rows of the table for a query that returned the issues given to
\* group_issues_by_parent, when the supplementary search returns nothing
RowsOfQuery(issues) == epic_entries(GroupedData(issues, <<>>))

\* C16 as stated: for a query whose issues have distinct keys, no key is in
\* two rows of the table: the keys of the EpicGroups and the keys of the
\* standalone issues are disjoint, also when an epic_link names an issue of
\* the query that is not an epic.
C16_Original ==
    (fn_pc = "ret" /\ DistinctKeys(fn_in)) =>
        /\ DictKeys(fn_out.epics) \cap KeysOf(fn_out.standalone) = {}
        /\ \A i, j \in DOMAIN RowsOfQuery(fn_in) :
                RowsOfQuery(fn_in)[i].epic_key = RowsOfQuery(fn_in)[j].epic_key
                    => i = j

\* C16: a story of the query is a standalone issue and, being named by the
\* epic_link of another issue, the key of an EpicGroup; it has two rows
C16_Witness ==
    /\ fn_pc = "ret"
    /\ DistinctKeys(fn_in)
    /\ \E i, j \in DOMAIN fn_in :
            /\ fn_in[i].issuetype # "Epic"
            /\ fn_in[j].epic_link = fn_in[i].key
            /\ fn_in[i].key \in DictKeys(fn_out.epics)
            /\ fn_in[i].key \in KeysOf(fn_out.standalone)
            /\ Cardinality({r \in DOMAIN RowsOfQuery(fn_in) :
                    RowsOfQuery(fn_in)[r].epic_key = fn_in[i].key}) = 2

====
